---- MODULE Spec2Model ----
(***************************************************************************)
(* Model of modpack-helper.py: run() downloads the mods of a manifest in a *)
(* thread pool, then backs up the mods and config subtrees of the          *)
(* installation, updates Forge, installs the mods, applies the overrides   *)
(* of the pack and restores the kept configuration.                        *)
(*                                                                         *)
(* A file name is a tuple of characters, a path a tuple of file names, a   *)
(* tree a set of <<path, content>> pairs with one pair per path.  The     *)
(* content of a file says where it comes from.                             *)
(***************************************************************************)
EXTENDS Naturals, Sequences, FiniteSets

\* ------------------------------------------------------------ bounds
MaxEntries == 3      \* files and directDownload entries of a manifest
MaxThreads == 2      \* args.threads ranges over 1..MaxThreads
MaxRuns == 2         \* the command is run at most this many times in a row
MaxStagedMods == 1   \* files of a manifest, where the runs are repeated

\* ------------------------------------------------------------ file names
A == <<"a">>
AD == <<"a", "d">>
S == <<"s">>
T == <<"t">>
L == <<"l">>
ModNames == {A, AD}
BonusNames == {AD}

DevPattern == <<"*", "d">>
OtherPattern == <<"?", "b">>

\* fnmatch.fnmatch(filename, p), for patterns of literals, * and ?
RECURSIVE fnmatch(_, _)
fnmatch(filename, p) ==
    IF p = <<>> THEN filename = <<>>
    ELSE IF Head(p) = "*"
         THEN fnmatch(filename, Tail(p))
              \/ (filename # <<>> /\ fnmatch(Tail(filename), p))
         ELSE /\ filename # <<>>
              /\ (Head(p) = "?" \/ Head(p) = Head(filename))
              /\ fnmatch(Tail(filename), Tail(p))

\* args.exclude: not given, or the lines of the file (mod_blacklist)
NoExclude == [given |-> FALSE, patterns |-> <<>>]
Excludes == {NoExclude, [given |-> TRUE, patterns |-> <<OtherPattern, DevPattern>>]}

\* mutant: all() in place of any()
BlacklistedAll(filename, exclude) ==
    /\ exclude.given
    /\ exclude.patterns # <<>>
    /\ \A i \in 1..Len(exclude.patterns) : fnmatch(filename, exclude.patterns[i])

\* line 76: blacklist and any(fnmatch.fnmatch(filename, p) for p in blacklist)
Blacklisted(filename, exclude) ==
    /\ exclude.given
    /\ exclude.patterns # <<>>
    /\ \E i \in 1..Len(exclude.patterns) : fnmatch(filename, exclude.patterns[i])

\* ------------------------------------------------------------ trees
Paths(tree) == {e[1] : e \in tree}
Content(tree, p) == (CHOOSE e \in tree : e[1] = p)[2]
NoTree == {}
Absent == [exists |-> FALSE, files |-> NoTree]
Dir(tree) == [exists |-> TRUE, files |-> tree]

\* copytree(src, dst, override): the recursive call of line 124 does not pass
\* override on, so below the top level every file of src is copied.
CopiedBy(src, dst, override, p) ==
    p \in Paths(src) /\ (Len(p) > 1 \/ override \/ p \notin Paths(dst))

copytree(src, dst, override) ==
    {e \in dst : ~CopiedBy(src, dst, override, e[1])}
        \cup {e \in src : CopiedBy(src, dst, override, e[1])}

Subdirs == <<"mods", "config">>
Backup(k) == IF k = "mods" THEN "mods.bak" ELSE "config.bak"
DirNames == {"mods", "config", "mods.bak", "config.bak"}

\* ------------------------------------------------------------ inputs
\* a directDownload entry: entry.get('url'), entry.get('filename')
BonusEntry(n) == [url |-> TRUE, filename |-> TRUE, name |-> n]
BadEntry == [url |-> FALSE, filename |-> FALSE, name |-> <<>>]
BonusEntries == {BonusEntry(n) : n \in BonusNames} \cup {BadEntry}

SeqsUpTo(set, n) == UNION {[1..k -> set] : k \in 0..n}

\* manifest.get('overrides') and the archive entries under that root, by the
\* subtree of the installation they land in, and the top-level directories of
\* the archive's other entries
NoOverrides ==
    [declared |-> FALSE, mods |-> NoTree, config |-> NoTree, others |-> {}]
OverridesWith(m, c, o) ==
    [declared |-> TRUE, mods |-> m, config |-> c, others |-> o]
Overrides(m, c) == OverridesWith(m, c, {})

\* the directory manifest['overrides'] names, a directory that sorts before
\* it and one that sorts after it
Root == <<"o">>
Before == <<"l">>
After == <<"z">>

\* the order of str, on the characters the names are made of
Alphabet == <<"a", "b", "c", "d", "l", "m", "o", "s", "t", "z">>
Ord(c) == CHOOSE i \in DOMAIN Alphabet : Alphabet[i] = c

RECURSIVE StrLess(_, _)
StrLess(a, b) ==
    IF b = <<>> THEN FALSE
    ELSE IF a = <<>> THEN TRUE
    ELSE IF Head(a) = Head(b) THEN StrLess(Tail(a), Tail(b))
    ELSE Ord(Head(a)) < Ord(Head(b))

\* Path(p) < Path(q): the order of the tuples of the parts
RECURSIVE PathLess(_, _)
PathLess(p, q) ==
    IF q = <<>> THEN FALSE
    ELSE IF p = <<>> THEN TRUE
    ELSE IF Head(p) = Head(q) THEN PathLess(Tail(p), Tail(q))
    ELSE StrLess(Head(p), Head(q))

Part(k) == IF k = "mods" THEN <<"m">> ELSE <<"c">>
Entry(top, k, e) ==
    [path |-> <<top, Part(k)>> \o e[1], top |-> top, dir |-> k, file |-> e]

VARIABLES
    args,       \* threads, keep_forge, keep_config, exclude
    manifest,   \* files (the resolved name of each), bonus, overrides, forge
    fs,         \* the installation: mods, config and their .bak, each a directory
    mod_store,  \* tmp_dir / 'mod_store'
    futures,    \* the futures of the executor, in submission order
    pc,         \* where run() is
    idx,        \* the position of the loop run() is in
    seen,       \* the futures as_completed has yielded
    cur,        \* the future whose exception is being raised
    err,        \* the exception run() ends with
    installer,  \* update_forge: the URLs requested and their answers, the
                \* installers invoked and their exit codes, forge.exists()
    steps,      \* the staging steps this run has executed
    pre,        \* the installation when this run started
    runs,       \* how many times the command has been started
    last,       \* the run before this one: its pre and its steps
    link        \* what dest_dir / args.forge_symlink is

vars == <<args, manifest, fs, mod_store, futures, pc, idx, seen, cur, err,
          installer, steps, pre, runs, last, link>>

NoError == [type |-> "none", task |-> 0]
TaskError(t) == [type |-> "TaskError", task |-> t]
OtherError(type) == [type |-> type, task |-> 0]
NoInstaller == [requested |-> <<>>, answers |-> <<>>, invoked |-> <<>>,
                exits |-> <<>>, artifact |-> <<>>]

Future(kind, n) == [kind |-> kind, name |-> n, st |-> "pending",
                    opened |-> FALSE, ret |-> "unset"]

Tasks == 1..Len(futures)
Running(t) == futures[t].st \in {"resolving", "transferring"}
Settled(t) == futures[t].st \in {"done", "failed", "cancelled"}
NumEntries == Len(manifest.files) + Len(manifest.bonus)

InitOf(argsSet, manifestSet, fsSet, linkSet) ==
    /\ args \in argsSet
    /\ manifest \in manifestSet
    /\ fs \in fsSet
    /\ link \in linkSet
    /\ mod_store = NoTree
    /\ futures = <<>>
    /\ pc = "submit"
    /\ idx = 1
    /\ seen = {}
    /\ cur = 0
    /\ err = NoError
    /\ installer = NoInstaller
    /\ steps = {}
    /\ pre = fs
    /\ runs = 1
    /\ last = [pre |-> fs, steps |-> {}]

\* ------------------------------------------------------------ run(): downloads
\* lines 165-174: one iteration of the two submission loops
IsBad(entry) == ~entry.url \/ ~entry.filename

Submit ==
    /\ pc = "submit"
    /\ idx <= NumEntries
    /\ IF idx <= Len(manifest.files)
       THEN /\ futures' = Append(futures, Future("mod", manifest.files[idx]))
            /\ idx' = idx + 1
            /\ UNCHANGED <<pc, err>>
       ELSE LET entry == manifest.bonus[idx - Len(manifest.files)] IN
            IF IsBad(entry)
            THEN \* logger.warning(..., file=sys.stderr) raises TypeError
                 /\ err' = OtherError("TypeError")
                 /\ pc' = "exit_pool"
                 /\ UNCHANGED <<futures, idx>>
            ELSE /\ futures' = Append(futures, Future("direct", entry.name))
                 /\ idx' = idx + 1
                 /\ UNCHANGED <<pc, err>>
    /\ UNCHANGED <<args, manifest, fs, mod_store, seen, cur, installer, steps,
                   pre, runs, last, link>>

\* mutant: the futures are not waited for
SubmittedNoWait ==
    /\ pc = "submit"
    /\ idx > NumEntries
    /\ pc' = "backup"
    /\ idx' = 1
    /\ UNCHANGED <<args, manifest, fs, mod_store, futures, seen, cur, err,
                   installer, steps, pre, runs, last, link>>

Submitted ==
    /\ pc = "submit"
    /\ idx > NumEntries
    /\ pc' = "collect"
    /\ UNCHANGED <<args, manifest, fs, mod_store, futures, idx, seen, cur, err,
                   installer, steps, pre, runs, last, link>>

\* mutant: a thread per task
WorkerAlwaysFree == TRUE

\* ThreadPoolExecutor(args.threads): a worker is free
WorkerFree == Cardinality({t \in Tasks : Running(t)}) < args.threads

\* the work queue is first in, first out; a cancelled item is dropped
NextInQueue(t) ==
    /\ futures[t].st = "pending"
    /\ \A u \in 1..(t - 1) : futures[u].st # "pending"

SetFuture(t, f) == futures' = [futures EXCEPT ![t] = f]

Start(t) ==
    /\ NextInQueue(t)
    /\ WorkerFree
    /\ SetFuture(t, [futures[t] EXCEPT !.st = "resolving"])
    /\ UNCHANGED <<args, manifest, fs, mod_store, pc, idx, seen, cur, err,
                   installer, steps, pre, runs, last, link>>

\* mutant: the blacklist is applied to the direct downloads too
ExcludedAlsoDirect(t) == Blacklisted(futures[t].name, args.exclude)

\* download_mod lines 73-80 up to the open of line 58, download lines 51-58
Excluded(t) == futures[t].kind = "mod" /\ Blacklisted(futures[t].name, args.exclude)

Resolve(t, ok) ==
    /\ futures[t].st = "resolving"
    /\ IF ~ok
       THEN /\ SetFuture(t, [futures[t] EXCEPT !.st = "failed"])
            /\ UNCHANGED mod_store
       ELSE IF Excluded(t)
       THEN /\ SetFuture(t, [futures[t] EXCEPT !.st = "done", !.ret = "None"])
            /\ UNCHANGED mod_store
       ELSE /\ SetFuture(t, [futures[t] EXCEPT !.st = "transferring", !.opened = TRUE])
            /\ mod_store' = {e \in mod_store : e[1] # <<futures[t].name>>}
                                \cup {<<(<<futures[t].name>>), "partial">>}
    /\ UNCHANGED <<args, manifest, fs, pc, idx, seen, cur, err, installer,
                   steps, pre, runs, last, link>>

\* download lines 59-66
Transfer(t, ok) ==
    /\ futures[t].st = "transferring"
    /\ IF ok
       THEN /\ SetFuture(t, [futures[t] EXCEPT !.st = "done", !.ret = "path"])
            /\ mod_store' = {e \in mod_store : e[1] # <<futures[t].name>>}
                                \cup {<<(<<futures[t].name>>), "dl">>}
       ELSE /\ SetFuture(t, [futures[t] EXCEPT !.st = "failed"])
            /\ UNCHANGED mod_store
    /\ UNCHANGED <<args, manifest, fs, pc, idx, seen, cur, err, installer,
                   steps, pre, runs, last, link>>

\* as_completed(futures) yields a future once it is finished
AsCompleted(t) == t \notin seen /\ Settled(t)

\* lines 177-179: one iteration of the loop, up to the test of e
Collect(t) ==
    /\ pc = "collect"
    /\ t \in Tasks
    /\ AsCompleted(t)
    /\ IF futures[t].st = "failed"
       THEN /\ pc' = "cancel"
            /\ idx' = 1
            /\ cur' = t
            /\ UNCHANGED <<seen, err>>
       ELSE IF futures[t].st = "cancelled"
       THEN \* f.exception() raises CancelledError
            /\ err' = OtherError("CancelledError")
            /\ pc' = "exit_pool"
            /\ UNCHANGED <<seen, idx, cur>>
       ELSE /\ seen' = seen \cup {t}
            /\ UNCHANGED <<pc, idx, cur, err>>
    /\ UNCHANGED <<args, manifest, fs, mod_store, futures, installer, steps,
                   pre, runs, last, link>>

Collected ==
    /\ pc = "collect"
    /\ seen = Tasks
    /\ pc' = "exit_pool"
    /\ UNCHANGED <<args, manifest, fs, mod_store, futures, idx, seen, cur, err,
                   installer, steps, pre, runs, last, link>>

\* line 180: g.cancel() cancels a future that has not started
Cancel ==
    /\ pc = "cancel"
    /\ idx <= Len(futures)
    /\ idx' = idx + 1
    /\ IF futures[idx].st = "pending"
       THEN SetFuture(idx, [futures[idx] EXCEPT !.st = "cancelled"])
       ELSE UNCHANGED futures
    /\ UNCHANGED <<args, manifest, fs, mod_store, pc, seen, cur, err,
                   installer, steps, pre, runs, last, link>>

\* line 183: f.result() raises the exception of f
Raise ==
    /\ pc = "cancel"
    /\ idx > Len(futures)
    /\ err' = TaskError(cur)
    /\ pc' = "exit_pool"
    /\ UNCHANGED <<args, manifest, fs, mod_store, futures, idx, seen, cur,
                   installer, steps, pre, runs, last, link>>

\* mutant: executor.shutdown(wait=False)
PoolNotAwaited == TRUE

\* the end of the with block: executor.shutdown(wait=True)
PoolIdle == \A t \in Tasks : Settled(t)

ExitPool ==
    /\ pc = "exit_pool"
    /\ PoolIdle
    /\ pc' = IF err = NoError THEN "backup" ELSE "failed"
    /\ idx' = 1
    /\ UNCHANGED <<args, manifest, fs, mod_store, futures, seen, cur, err,
                   installer, steps, pre, runs, last, link>>

\* ------------------------------------------------------------ run(): staging
Did(step) == steps' = steps \cup step

\* mutant: the subtree is emptied without being renamed to its backup
BackedUpNoRename(k) == [fs EXCEPT ![k] = Dir(NoTree)]

\* lines 189-195: one iteration of the backup loop, for k = Subdirs[idx]
BackedUp(k) ==
    IF fs[k].exists
    THEN [fs EXCEPT ![Backup(k)] = fs[k], ![k] = Dir(NoTree)]
    ELSE [fs EXCEPT ![k] = Dir(NoTree)]

BackupSteps(k) ==
    (IF fs[k].exists /\ fs[Backup(k)].exists THEN {<<"rmtree", k>>} ELSE {})
        \cup (IF fs[k].exists THEN {<<"replace", k>>} ELSE {})
        \cup {<<"mkdir", k>>}

BackupSubdir ==
    /\ pc = "backup"
    /\ fs' = BackedUp(Subdirs[idx])
    /\ Did(BackupSteps(Subdirs[idx]))
    /\ IF idx < Len(Subdirs)
       THEN idx' = idx + 1 /\ UNCHANGED pc
       ELSE pc' = "forge" /\ UNCHANGED idx
    /\ UNCHANGED <<args, manifest, mod_store, futures, seen, cur, err,
                   installer, pre, runs, last, link>>

\* lines 198-206: Forge is kept, or the manifest does not name it
ForgeWanted == ~args.keep_forge /\ manifest.forge

NoForgeUpdate ==
    /\ pc = "forge"
    /\ ~ForgeWanted
    /\ IF ~args.keep_forge
       THEN Did({<<"warning">>})
       ELSE UNCHANGED steps
    /\ pc' = "install"
    /\ UNCHANGED <<args, manifest, fs, mod_store, futures, idx, seen, cur, err,
                   installer, pre, runs, last, link>>

\* mutant: the second URL is tried after any error of the first
FetchedAnyError(primary, fallback) ==
    IF primary = "ok" THEN "primary"
    ELSE IF fallback = "ok" THEN "fallback"
    ELSE "none"

\* update_forge lines 92-102: the installer that is downloaded, "none" when
\* the download raises
Fetched(primary, fallback) ==
    IF primary = "ok" THEN "primary"
    ELSE IF primary = "404" /\ fallback = "ok" THEN "fallback"
    ELSE "none"

Requested(primary) ==
    IF primary = "404" THEN <<"primary", "fallback">> ELSE <<"primary">>

Answers(primary, fallback) ==
    IF primary = "404" THEN <<primary, fallback>> ELSE <<primary>>

\* mutant: subprocess.call, the exit code is not looked at
ExitIgnored(exit) == FALSE

\* line 106: check_call raises CalledProcessError on a non-zero exit code
ExitRaises(exit) == exit # 0

\* what dest_dir / args.forge_symlink can be when the command starts, and
\* "forge": a symbolic link to the universal jar this run installed
LinkStates == {"absent", "file", "live", "dangling"}

\* line 111: Path.exists() follows symbolic links
Exists(l) == l \in {"file", "live", "forge"}

\* lines 108-113
LinkWanted(artifact) == artifact /\ args.forge_symlink

LinkSteps ==
    (IF Exists(link) THEN {<<"unlink">>} ELSE {}) \cup {<<"symlink">>}

UpdateForge(primary, fallback, exit, artifact) ==
    /\ pc = "forge"
    /\ ForgeWanted
    /\ LET got == Fetched(primary, fallback)
           asked == [NoInstaller EXCEPT !.requested = Requested(primary),
                                        !.answers = Answers(primary, fallback)]
           ran == [asked EXCEPT !.invoked = <<got>>, !.exits = <<exit>>] IN
       IF got = "none"
       THEN /\ installer' = asked
            /\ err' = OtherError("HTTPError")
            /\ pc' = "failed"
            /\ UNCHANGED <<steps, link>>
       ELSE IF ExitRaises(exit)
       THEN /\ installer' = ran
            /\ Did({<<"installer">>})
            /\ err' = OtherError("CalledProcessError")
            /\ pc' = "failed"
            /\ UNCHANGED link
       ELSE /\ installer' = [ran EXCEPT !.artifact = <<artifact>>]
            /\ IF ~LinkWanted(artifact)
               THEN /\ Did({<<"installer">>})
                    /\ pc' = "install"
                    /\ UNCHANGED <<err, link>>
               ELSE IF Exists(link) \/ link = "absent"
               THEN /\ Did({<<"installer">>} \cup LinkSteps)
                    /\ link' = "forge"
                    /\ pc' = "install"
                    /\ UNCHANGED err
               ELSE \* symlink_to on a name that is a dangling link
                    /\ Did({<<"installer">>})
                    /\ err' = OtherError("FileExistsError")
                    /\ pc' = "failed"
                    /\ UNCHANGED link
    /\ UNCHANGED <<args, manifest, fs, mod_store, futures, idx, seen, cur,
                   pre, runs, last>>

\* line 210
InstallMods ==
    /\ pc = "install"
    /\ fs' = [fs EXCEPT !["mods"] = Dir(copytree(mod_store, fs["mods"].files, TRUE))]
    /\ Did({<<"copytree", "mods">>})
    /\ pc' = "overrides"
    /\ UNCHANGED <<args, manifest, mod_store, futures, idx, seen, cur, err,
                   installer, pre, runs, last, link>>

\* line 217: modpack.namelist()
Namelist ==
    UNION {{Entry(Root, k, e) : e \in manifest.overrides[k]} : k \in {"mods", "config"}}
        \cup {Entry(top, "config", <<(<<S>>), "other">>) : top \in manifest.overrides.others}

\* line 217: the entries that are extracted, those with Path(entry) > overrides
Todo == {n \in Namelist : PathLess(<<Root>>, n.path)}

\* mutant: the whole temporary directory is copied
CopiedAll == Todo

\* line 219: the entries copytree finds under tmp_dir / overrides
Copied == {n \in Todo : n.top = Root}

FromRoot(k) == {n.file : n \in {m \in Copied : m.dir = k}}

Origin(n) == IF n.top = Root THEN "root" ELSE "other"

\* lines 214-219: copytree(tmp_dir / overrides, base_dir) copies each
\* directory of the overrides into the directory of the same name
Overridden(k) ==
    IF FromRoot(k) = NoTree THEN fs[k]
    ELSE Dir(copytree(FromRoot(k), fs[k].files, TRUE))

NothingExtracted == \A n \in Todo : n.top # Root

ApplyOverrides ==
    /\ pc = "overrides"
    /\ IF ~manifest.overrides.declared
       THEN /\ pc' = "restore"
            /\ UNCHANGED <<fs, err, steps>>
       ELSE IF NothingExtracted
       THEN \* os.listdir(src) of a directory that was not extracted
            /\ pc' = "failed"
            /\ err' = OtherError("FileNotFoundError")
            /\ UNCHANGED <<fs, steps>>
       ELSE /\ fs' = [fs EXCEPT !["mods"] = Overridden("mods"),
                                !["config"] = Overridden("config")]
            /\ Did({<<"copytree", "overrides">>}
                       \cup {<<"copied", Origin(n)>> : n \in Copied})
            /\ pc' = "restore"
            /\ UNCHANGED err
    /\ UNCHANGED <<args, manifest, mod_store, futures, idx, seen, cur,
                   installer, pre, runs, last, link>>

\* mutant: the flag is read the wrong way round
RestoreUnlessKept == ~args.keep_config /\ fs["config.bak"].exists

\* lines 221-222: copytree is called with its default, override=True
RestoreWanted == args.keep_config /\ fs["config.bak"].exists

Restored ==
    Dir(copytree(fs["config.bak"].files, fs["config"].files, TRUE))

RestoreConfig ==
    /\ pc = "restore"
    /\ IF RestoreWanted
       THEN /\ fs' = [fs EXCEPT !["config"] = Restored]
            /\ Did({<<"copytree", "config.bak">>})
       ELSE UNCHANGED <<fs, steps>>
    /\ pc' = "done"
    /\ UNCHANGED <<args, manifest, mod_store, futures, idx, seen, cur, err,
                   installer, pre, runs, last, link>>

\* the command is started again, on the installation the last run left, in a
\* new temporary directory
Ended == pc \in {"done", "failed"}

NewRun ==
    /\ Ended
    /\ runs < MaxRuns
    /\ runs' = runs + 1
    /\ pre' = fs
    /\ mod_store' = NoTree
    /\ futures' = <<>>
    /\ pc' = "submit"
    /\ idx' = 1
    /\ seen' = {}
    /\ cur' = 0
    /\ err' = NoError
    /\ installer' = NoInstaller
    /\ steps' = {}
    /\ last' = [pre |-> pre, steps |-> steps]
    /\ UNCHANGED <<args, manifest, fs, link>>

Outcomes == {"ok", "404", "error"}

Run ==
    \/ Submit
    \/ Submitted
    \/ \E t \in Tasks : Start(t)
    \/ \E t \in Tasks, ok \in BOOLEAN : Resolve(t, ok)
    \/ \E t \in Tasks, ok \in BOOLEAN : Transfer(t, ok)
    \/ \E t \in Tasks : Collect(t)
    \/ Collected
    \/ Cancel
    \/ Raise
    \/ ExitPool
    \/ BackupSubdir
    \/ NoForgeUpdate
    \/ \E primary \in Outcomes, fallback \in Outcomes, exit \in 0..1,
          artifact \in BOOLEAN :
          UpdateForge(primary, fallback, exit, artifact)
    \/ InstallMods
    \/ ApplyOverrides
    \/ RestoreConfig

Next == Run \/ NewRun

\* ------------------------------------------------------------ specifications
UserFile(p) == <<p, "user">>
PackFile(p) == <<p, "pack">>

ArgsOf(threads, keepForge, keepConfig, excludes, symlink) ==
    [threads : threads, keep_forge : keepForge, keep_config : keepConfig,
     exclude : excludes, forge_symlink : symlink]

ManifestsOf(names, entries, n, overrides, forge) ==
    {m \in [files : SeqsUpTo(names, n), bonus : SeqsUpTo(entries, n),
            overrides : overrides, forge : forge] :
        Len(m.files) + Len(m.bonus) <= n}

\* an installation with a mod of the pack, a mod that is not of the pack and
\* a configuration
Installed ==
    [k \in DirNames |->
        IF k = "mods" THEN Dir({UserFile(<<A>>), UserFile(<<L>>)})
        ELSE IF k = "config" THEN Dir({UserFile(<<S>>)})
        ELSE Absent]

\* the staging in full, run after run: installations with or without mods,
\* a configuration and a backup of an earlier run; packs with or without
\* overrides
PackOverrides ==
    {NoOverrides,
     Overrides(NoTree, NoTree),
     Overrides(NoTree, {PackFile(<<S>>)}),
     Overrides({PackFile(<<A>>)}, {PackFile(<<S>>), PackFile(<<T, S>>)}),
     OverridesWith(NoTree, NoTree, {After}),
     OverridesWith({PackFile(<<A>>)}, {PackFile(<<S>>)}, {Before, After})}

Installations ==
    {[k \in DirNames |->
        IF k = "mods" THEN m ELSE IF k = "config" THEN c
        ELSE IF k = "config.bak" THEN b ELSE Absent] :
        m \in {Absent, Dir({UserFile(<<A>>), UserFile(<<L>>)})},
        c \in {Absent, Dir({UserFile(<<S>>), UserFile(<<T, S>>), UserFile(<<L>>)})},
        b \in {Absent, Dir({<<(<<S>>), "stale">>})}}

Init ==
    InitOf(ArgsOf({1}, BOOLEAN, BOOLEAN, {NoExclude}, {TRUE}),
           ManifestsOf({A}, {}, MaxStagedMods, PackOverrides, BOOLEAN),
           Installations, {"absent"})

Spec == Init /\ [][Next]_vars

\* the downloads in full, in one run on one installation
InitDownloads ==
    InitOf(ArgsOf(1..MaxThreads, BOOLEAN, {FALSE}, Excludes, {TRUE}),
           ManifestsOf(ModNames, BonusEntries, MaxEntries, {NoOverrides}, {TRUE}),
           {Installed}, {"absent"})

SpecDownloads == InitDownloads /\ [][Run]_vars

\* the Forge update in full, in one run on one installation: with or without
\* a link name, whatever is at that name
InitLoader ==
    InitOf(ArgsOf({1}, {FALSE}, BOOLEAN, {NoExclude}, BOOLEAN),
           ManifestsOf({A}, {}, MaxStagedMods, {NoOverrides}, BOOLEAN),
           {Installed}, LinkStates)

SpecLoader == InitLoader /\ [][Run]_vars

\* copytree alone: one call, on every pair of a source and a destination
\* made of a file, a file of that name in a directory and another file
TreeFiles(c) == {<<(<<S>>), c>>, <<(<<T, S>>), c>>, <<(<<L>>), c>>}

InitCopytree ==
    /\ InitOf(ArgsOf({1}, {TRUE}, {FALSE}, {NoExclude}, {FALSE}),
              ManifestsOf({A}, {}, 0, {NoOverrides}, {FALSE}),
              {[k \in DirNames |->
                  IF k = "config.bak" THEN Dir(src)
                  ELSE IF k = "config" THEN Dir(dst) ELSE Absent] :
                  src \in SUBSET TreeFiles("src"),
                  dst \in SUBSET TreeFiles("dst")},
              {"absent"})

\* copytree(config.bak, config, override)
CopytreeCall(override) ==
    /\ steps = {}
    /\ fs' = [fs EXCEPT !["config"] =
                  Dir(copytree(fs["config.bak"].files, fs["config"].files, override))]
    /\ Did({<<"copytree", IF override THEN "override" ELSE "keep">>})
    /\ UNCHANGED <<args, manifest, mod_store, futures, pc, idx, seen, cur, err,
                   installer, pre, runs, last, link>>

NextCopytree == \E override \in BOOLEAN : CopytreeCall(override)

SpecCopytree == InitCopytree /\ [][NextCopytree]_vars

\* ------------------------------------------------------------ claims
Failed(t) == futures[t].st = "failed"
Live == {"mods", "config"}

\* C1: if a download task fails, run() ends with the error of a failed task
\* and no staging step is executed: mods, config and their backups are as
\* they were before the run.
C1_FailedTaskError ==
    (pc = "failed" /\ \E t \in Tasks : Failed(t)) =>
        /\ err.type = "TaskError"
        /\ Failed(err.task)
        /\ steps = {}
        /\ fs = pre

\* what holds of C1 on the code: once a task has failed no staging step is
\* ever executed and the installation is as it was
FailedTaskNoStaging ==
    (\E t \in Tasks : Failed(t)) =>
        /\ pc \in {"submit", "collect", "cancel", "exit_pool", "failed"}
        /\ steps = {}
        /\ fs = pre

\* C2: a second backup step, with no populate since the first one, leaves the
\* contents that mods and config had before the first run on disk, in the
\* live subtree or in its backup.
Populated(done) == \E st \in done : st[1] = "copytree"

C2_SecondBackupKeeps ==
    \A k \in Live :
        (/\ runs >= 2
         /\ <<"mkdir", k>> \in last.steps
         /\ ~Populated(last.steps)
         /\ <<"mkdir", k>> \in steps
         /\ ~Populated(steps)) =>
            \/ last.pre[k].files \subseteq fs[k].files
            \/ last.pre[k].files \subseteq fs[Backup(k)].files

\* C3: after a successful run with keep_config, a file that was in the config
\* subtree before the run and is in the config directory of the overrides
\* holds the content of the overrides.
C3_OverridesWin ==
    (pc = "done" /\ args.keep_config /\ manifest.overrides.declared) =>
        \A p \in Paths(pre["config"].files) \cap Paths(manifest.overrides.config) :
            /\ p \in Paths(fs["config"].files)
            /\ Content(fs["config"].files, p) = Content(manifest.overrides.config, p)

Pending(t) == futures[t].st = "pending"
Staging == {"backup", "forge", "install", "overrides", "restore"}

\* C4: while a staging step or the Forge update can run, and once one has
\* run, no submitted task is pending or running: each is done, failed or
\* cancelled.
C4_StagingAfterTasks ==
    (pc \in Staging \/ steps # {} \/ installer # NoInstaller) =>
        \A t \in Tasks : ~Pending(t) /\ ~Running(t)

C4_Witness ==
    /\ pc = "backup"
    /\ idx = 1
    /\ Len(futures) >= 2
    /\ \E t \in Tasks : futures[t].ret = "path"

\* C5: at most args.threads tasks are resolving or transferring at a time.
C5_AtMostThreads ==
    Cardinality({t \in Tasks : Running(t)}) <= args.threads

C5_Witness ==
    /\ Len(futures) > args.threads
    /\ Cardinality({t \in Tasks : Running(t)}) = args.threads
    /\ \E t \in Tasks : Pending(t)

\* C6: when run() raises the exception of the first failed task it has seen,
\* every task that was not started is cancelled and has never run, no task is
\* left pending, the exception reaches the caller of the with block only when
\* no task is running, and the exception is never the CancelledError of a
\* cancelled task.
Cancelled(t) == futures[t].st = "cancelled"

C6_FailFast ==
    /\ err.type # "CancelledError"
    /\ \A t \in Tasks :
          Cancelled(t) => /\ ~futures[t].opened
                          /\ futures[t].ret = "unset"
                          /\ cur \in Tasks
                          /\ Failed(cur)
    /\ err.type = "TaskError" =>
          /\ err.task = cur
          /\ Failed(cur)
          /\ \A t \in Tasks : ~Pending(t)
    /\ (pc = "failed" /\ (\E t \in Tasks : Failed(t))) =>
          \A t \in Tasks : ~Pending(t) /\ ~Running(t)

C6_Witness ==
    /\ pc = "failed"
    /\ err.type = "TaskError"
    /\ \E t \in Tasks : Cancelled(t)
    /\ \E t \in Tasks : t # err.task /\ futures[t].ret = "path"

\* C7: a live subtree is as it was before the run until the backup step has
\* handled it, and from then on its backup holds what the subtree held before
\* the run: every later write goes to a subtree that is backed up.
C7_BackupBeforeWrites ==
    \A k \in Live :
        IF <<"mkdir", k>> \in steps
        THEN pre[k].exists => fs[Backup(k)] = pre[k]
        ELSE fs[k] = pre[k]

C7_Witness ==
    /\ pc = "restore"
    /\ RestoreWanted
    /\ <<"copytree", "overrides">> \in steps
    /\ \A k \in Live : pre[k].files # NoTree /\ fs[k] # pre[k]

\* C8: a directDownload entry without url and filename makes no task and does
\* not end the run: the other entries are submitted and run() goes on.
GoodEntries == {i \in 1..Len(manifest.bonus) : ~IsBad(manifest.bonus[i])}

C8_BadEntrySkipped ==
    ((\E i \in 1..Len(manifest.bonus) : IsBad(manifest.bonus[i])) /\ pc # "submit") =>
        /\ err.type # "TypeError"
        /\ Len(futures) = Len(manifest.files) + Cardinality(GoodEntries)

\* C9: after a successful run of a pack without overrides, mods holds the
\* files of the download store and nothing else: the descriptors whose name
\* matches no pattern of the blacklist and every direct download, one file
\* each when their names differ, and no file that only the mods of before the
\* run had; without keep_config, config is empty.
Matches(n) ==
    /\ args.exclude.given
    /\ \E i \in 1..Len(args.exclude.patterns) : fnmatch(n, args.exclude.patterns[i])

KeptMods == {i \in 1..Len(manifest.files) : ~Matches(manifest.files[i])}
Delivered ==
    {manifest.files[i] : i \in KeptMods}
        \cup {manifest.bonus[i].name : i \in 1..Len(manifest.bonus)}
Distinct ==
    /\ \A i, j \in KeptMods : manifest.files[i] = manifest.files[j] => i = j
    /\ \A i \in KeptMods, j \in 1..Len(manifest.bonus) :
          manifest.files[i] # manifest.bonus[j].name
    /\ \A i, j \in 1..Len(manifest.bonus) :
          manifest.bonus[i].name = manifest.bonus[j].name => i = j

C9_ModsAreTheStore ==
    (pc = "done" /\ ~manifest.overrides.declared) =>
        /\ fs["mods"] = Dir(mod_store)
        /\ fs["mods"].files = {<<(<<n>>), "dl">> : n \in Delivered}
        /\ Distinct => Cardinality(fs["mods"].files)
                           = Cardinality(KeptMods) + Len(manifest.bonus)
        /\ \A p \in Paths(pre["mods"].files) :
              p \in Paths(fs["mods"].files) => p[1] \in Delivered
        /\ ~args.keep_config => fs["config"] = Dir(NoTree)

C9_Witness ==
    /\ pc = "done"
    /\ ~manifest.overrides.declared
    /\ ~args.keep_config
    /\ Distinct
    /\ Cardinality(KeptMods) < Len(manifest.files)
    /\ \E i \in 1..Len(manifest.bonus) : Matches(manifest.bonus[i].name)
    /\ Cardinality(fs["mods"].files) = 2
    /\ \E p \in Paths(pre["mods"].files) : p \notin Paths(fs["mods"].files)

\* C10: a descriptor whose resolved name matches a pattern of the blacklist
\* is never transferred, opens no file in the store and returns None; one
\* whose name matches no pattern and that ends without error has been
\* transferred and returns the path of its file in the store.
IsMod(t) == futures[t].kind = "mod"

C10_ExcludedNotTransferred ==
    \A t \in Tasks :
        IsMod(t) =>
            IF Matches(futures[t].name)
            THEN /\ futures[t].st # "transferring"
                 /\ ~futures[t].opened
                 /\ futures[t].ret # "path"
                 /\ futures[t].st = "done" => futures[t].ret = "None"
                 /\ (\A u \in Tasks : futures[u].name = futures[t].name => IsMod(u))
                       => <<futures[t].name>> \notin Paths(mod_store)
            ELSE /\ futures[t].ret # "None"
                 /\ futures[t].st = "done" =>
                       /\ futures[t].ret = "path"
                       /\ futures[t].opened
                       /\ <<futures[t].name>> \in Paths(mod_store)

C10_Witness ==
    /\ \E t \in Tasks : IsMod(t) /\ Matches(futures[t].name) /\ futures[t].ret = "None"
    /\ \E t \in Tasks : IsMod(t) /\ ~Matches(futures[t].name) /\ futures[t].ret = "path"

\* C11: no two tasks are writing the same file of the download store at the
\* same time.
Writing(t) == futures[t].st = "transferring"

C11_NoSharedDestination ==
    \A t, u \in Tasks :
        (t # u /\ Writing(t) /\ Writing(u)) => futures[t].name # futures[u].name

\* C12: when the first installer URL answers 404 and the second one succeeds,
\* the installer is run exactly once, the one downloaded from the second URL;
\* when the first download fails otherwise, the second URL is not requested
\* and no installer is run; the second URL is requested at most once.
Times(url) ==
    Cardinality({i \in DOMAIN installer.requested : installer.requested[i] = url})

C12_FallbackRule ==
    /\ installer.answers = <<"404", "ok">> => installer.invoked = <<"fallback">>
    /\ (installer.answers # <<>> /\ installer.answers[1] = "error") =>
           /\ Times("fallback") = 0
           /\ installer.invoked = <<>>
    /\ Times("fallback") <= 1
    /\ Times("fallback") = 1 => installer.answers[1] = "404"

C12_Witness ==
    /\ pc = "install"
    /\ installer.answers = <<"404", "ok">>
    /\ installer.requested = <<"primary", "fallback">>
    /\ installer.invoked = <<"fallback">>

\* C13: a run that is to update Forge, on a manifest that does not name the
\* Minecraft version or Forge, logs a warning, runs no installer, goes on to
\* install the mods, apply the overrides and restore the configuration, and
\* ends successfully.
NoLoader == ~args.keep_forge /\ ~manifest.forge
PastForge == <<"mkdir", "config">> \in steps /\ pc # "forge"

C13_NoLoaderCompletes ==
    (NoLoader /\ PastForge) =>
        /\ <<"warning">> \in steps
        /\ installer = NoInstaller
        /\ pc # "failed"
        /\ pc = "done" =>
              /\ <<"copytree", "mods">> \in steps
              /\ manifest.overrides.declared => <<"copytree", "overrides">> \in steps
              /\ (args.keep_config /\ fs["config.bak"].exists) =>
                     <<"copytree", "config.bak">> \in steps

\* what holds of C13 on the code: the warning is logged, no installer is run
\* and the mods are installed; the run fails only in the overrides step, on
\* overrides that are declared and have no entry in the archive
NoLoaderWarns ==
    (NoLoader /\ PastForge) =>
        /\ <<"warning">> \in steps
        /\ installer = NoInstaller
        /\ pc = "failed" =>
              /\ err = OtherError("FileNotFoundError")
              /\ <<"copytree", "mods">> \in steps
              /\ manifest.overrides.declared /\ NothingExtracted

\* C14 as stated: when the Forge installer exits with a non-zero code the run
\* ends there with the backups of mods and config in place, holding what the
\* subtrees held before the run, mods and config empty, and no install of
\* mods, no overrides, no restore of the configuration and no symlink.
InstallerFailed == installer.exits # <<>> /\ installer.exits[1] # 0

AfterInstaller ==
    {<<"copytree", "mods">>, <<"copytree", "overrides">>,
     <<"copytree", "config.bak">>, <<"unlink">>, <<"symlink">>}

AbortedAtInstaller ==
    /\ pc = "failed"
    /\ err = OtherError("CalledProcessError")
    /\ \A k \in Live : fs[k] = Dir(NoTree)
    /\ steps \cap AfterInstaller = {}

C14_BackupsExist ==
    InstallerFailed =>
        /\ AbortedAtInstaller
        /\ \A k \in Live :
              fs[Backup(k)].exists /\ fs[Backup(k)].files = pre[k].files

\* C14, amended: the same, the backup being in place for each of mods and
\* config that existed when the run started.
C14_InstallerFailureAborts ==
    InstallerFailed =>
        /\ AbortedAtInstaller
        /\ \A k \in Live : pre[k].exists => fs[Backup(k)] = pre[k]

C14_Witness ==
    /\ InstallerFailed
    /\ pc = "failed"
    /\ \A k \in Live : pre[k].files # NoTree /\ fs[Backup(k)] = pre[k]

\* C15: after a successful run with keep_config on an installation that had
\* a config subtree, each file that subtree held, at a path the overrides do
\* not supply, is in config with the content it had; after a successful run
\* without keep_config nothing is copied from the backup and config holds
\* the files of the overrides only.
C15_KeepConfig ==
    pc = "done" =>
        /\ (args.keep_config /\ pre["config"].exists) =>
              \A e \in pre["config"].files :
                  e[1] \notin Paths(manifest.overrides.config) =>
                      e \in fs["config"].files
        /\ ~args.keep_config =>
              /\ <<"copytree", "config.bak">> \notin steps
              /\ fs["config"].files = manifest.overrides.config

C15_Witness ==
    /\ pc = "done"
    /\ args.keep_config
    /\ manifest.overrides.config # NoTree
    /\ UserFile(<<L>>) \in pre["config"].files
    /\ UserFile(<<L>>) \in fs["config"].files
    /\ <<"copytree", "config.bak">> \in steps

\* C16: the overrides are applied after the mods are installed, so that
\* after a successful run a file that is both in the download store and in
\* the mods directory of the overrides holds the content of the overrides;
\* and no archive entry outside the overrides root is copied into the
\* installation.
C16_OverridesAfterMods ==
    /\ <<"copytree", "overrides">> \in steps => <<"copytree", "mods">> \in steps
    /\ pc = "done" =>
          \A p \in Paths(mod_store) \cap Paths(manifest.overrides.mods) :
              /\ p \in Paths(fs["mods"].files)
              /\ Content(fs["mods"].files, p) = Content(manifest.overrides.mods, p)
    /\ <<"copied", "other">> \notin steps

C16_Witness ==
    /\ pc = "done"
    /\ <<A>> \in Paths(mod_store)
    /\ PackFile(<<A>>) \in fs["mods"].files
    /\ \E n \in Todo : n.top # Root
    /\ <<"copied", "root">> \in steps

\* C17: when a link name is given and the universal jar exists after the
\* installer has run, update_forge ends with the link name being a symbolic
\* link to that jar, whatever the name was before: nothing, a link to an
\* existing file, a dangling link or a regular file; it does not fail on it.
LinkDue == installer.artifact = <<TRUE>> /\ args.forge_symlink

C17_LinkReplaced ==
    LinkDue =>
        /\ link = "forge"
        /\ <<"symlink">> \in steps
        /\ err.type # "FileExistsError"

\* what holds of C17 on the code: the link is made unless the name was a
\* dangling link, and then update_forge fails and leaves it
LinkReplacedUnlessDangling ==
    LinkDue =>
        \/ link = "forge" /\ <<"symlink">> \in steps /\ err = NoError
        \/ /\ link = "dangling"
           /\ pc = "failed"
           /\ err = OtherError("FileExistsError")
           /\ <<"symlink">> \notin steps

\* C18: in every run, what the restore of the configuration copies into
\* config is the config subtree as it was when that run started; a backup an
\* earlier run left is never restored, also by a run that starts without a
\* config subtree.
C18_RestoreOwnBackup ==
    <<"copytree", "config.bak">> \in steps =>
        /\ pre["config"].exists
        /\ fs["config.bak"] = pre["config"]

\* what holds of C18 on the code: a run that starts with a config subtree
\* restores that subtree and nothing else
RestoreOwnBackupIfConfig ==
    (<<"copytree", "config.bak">> \in steps /\ pre["config"].exists) =>
        fs["config.bak"] = pre["config"]

\* C19: copytree(src, dst, override=False) leaves every file that is under
\* dst, at any depth, with the content it had and copies the files of src
\* that dst does not have; copytree(src, dst, override=True) leaves every
\* file of src under dst with the content it has in src.
Called(how) == <<"copytree", how>> \in steps

C19_SkipAtEveryDepth ==
    LET src == fs["config.bak"].files
        before == pre["config"].files
        after == fs["config"].files IN
    /\ Called("keep") =>
          /\ before \subseteq after
          /\ \A e \in src : e[1] \notin Paths(before) => e \in after
          /\ \A e \in after \ before : e \in src /\ e[1] \notin Paths(before)
    /\ Called("override") => src \subseteq after

\* what holds of C19 on the code: with override=False the files directly
\* under dst are kept and the files of src in a sub-directory are copied over
\* those of dst; with override=True every file of src is copied
CopytreeSkipsTopLevel ==
    LET src == fs["config.bak"].files
        before == pre["config"].files
        after == fs["config"].files IN
    /\ Called("keep") =>
          /\ \A e \in before : Len(e[1]) = 1 => e \in after
          /\ \A e \in src : Len(e[1]) > 1 => e \in after
          /\ \A e \in src : e[1] \notin Paths(before) => e \in after
    /\ Called("override") => src \subseteq after

====
